---- MODULE Spec2Model ----
(***************************************************************************)
(* Sync engine of wealthfolio: the device-sync error classifier            *)
(* (crates/device-sync/src/error.rs), the background scheduler             *)
(* (apps/server/src/scheduler.rs) and the sync pass they drive.            *)
(*                                                                         *)
(* Three specifications share the module:                                  *)
(*   SpecErr   - the classifier's pure functions applied to every error    *)
(*               of a bounded input set;                                   *)
(*   SpecSched - the scheduler loop, the secret store, the clock and the   *)
(*               interactive triggers contending for a pass;               *)
(*   SpecSync  - the pass state machine over the cursor store.             *)
(***************************************************************************)
EXTENDS Integers, Sequences, FiniteSets, TLC

VARIABLES
    \* ---- classifier (SpecErr)
    err,            \* the DeviceSyncError under classification
    op,             \* the methods applied to it so far
    result,         \* what each method returned
    \* ---- scheduler (SpecSched)
    now,            \* the clock, in seconds since process start
    spc,            \* position of the scheduler task
    deadline,       \* next deadline of the tokio Interval
    secret,         \* what get_secret("sync_refresh_token") returns
    has_token,      \* run_scheduled_sync's local
    passLock,       \* holder of the pass-exclusion lock
    ipc,            \* position of each interactive trigger
    tickLog,        \* severities logged by the current run_scheduled_sync
    secretAtCheck,  \* the secret store's answer when the current run read it
    invoked,        \* whether the current run called perform_broker_sync
    netCalls,       \* network calls made on behalf of the current run
    attempts,       \* number of ticks fired so far
    firedAt,        \* clock value when the last tick fired
    ignoredReq,     \* whether some pass request was turned away
    \* ---- pass (SpecSync)
    cursor,         \* the persisted cursor
    lastErr,        \* error the last finished pass ended with
    phase,          \* state of the pass state machine
    mode,           \* what the pass entered at its decision
    reqSeg,         \* segment index the pass is fetching
    fetched,        \* the segment or snapshot in hand
    serverSegs,     \* number of segments the server holds
    startCursor,    \* cursor loaded at Start
    committed,      \* cursor value written by the last commit
    failedSeg,      \* segment index the last pass failed at, if Incremental
    firstFetch      \* whether the pass has yet to make its first fetch

errVars   == <<err, op, result>>
schedVars == <<now, spc, deadline, secret, has_token, passLock, ipc, tickLog,
               secretAtCheck, invoked, netCalls, attempts, firedAt, ignoredReq>>
syncVars  == <<cursor, lastErr, phase, mode, reqSeg, fetched, serverSegs,
               startCursor, committed, failedSeg, firstFetch>>
vars      == <<errVars, schedVars, syncVars>>

-----------------------------------------------------------------------------
(* Bounds *)

\* Largest HTTP status enumerated (covers the 599/600 edge of 500..=599).
MaxStatus == 600
\* Longest string, in tokens.
MaxLen == 2
\* The clock stops after the initial delay plus this many sync intervals.
MaxIntervals == 3
\* Number of interactive triggers (API requests for a sync pass).
NumInteractive == 2
\* Most network calls counted within one scheduled pass.
MaxNetCalls == 2
\* Most segments the server comes to hold.
MaxSegs == 3
\* Events in each segment.
EventsPerSegment == 2

-----------------------------------------------------------------------------
(* Strings.  A string is a sequence of tokens; a token is an atomic piece  *)
(* of text none of which contains another.  s.contains(p) for a token p is *)
(* "p occurs in s"; string equality is sequence equality.                  *)

SYNC_CURSOR_TOO_OLD == <<"SYNC_CURSOR_TOO_OLD">>
SYNC_SEGMENT_OBJECT_MISSING == <<"SYNC_SEGMENT_OBJECT_MISSING">>
SYNC_SEGMENT_OFFSET_INVALID == <<"SYNC_SEGMENT_OFFSET_INVALID">>
SYNC_SEGMENT_CHECKSUM_MISMATCH == <<"SYNC_SEGMENT_CHECKSUM_MISMATCH">>
SYNC_SEGMENT_STREAM_MISMATCH == <<"SYNC_SEGMENT_STREAM_MISMATCH">>
SYNC_EVENT_INDEX_MISMATCH == <<"SYNC_EVENT_INDEX_MISMATCH">>
SYNC_SNAPSHOT_OBJECT_MISSING == <<"SYNC_SNAPSHOT_OBJECT_MISSING">>
SYNC_SNAPSHOT_CHECKSUM_MISMATCH == <<"SYNC_SNAPSHOT_CHECKSUM_MISMATCH">>

Contains(s, p) == \E i \in 1..Len(s) : s[i] = p

IsEmpty(s) == Len(s) = 0

RECURSIVE StringsUpTo(_, _)
StringsUpTo(alphabet, n) ==
    IF n = 0 THEN {<<>>}
    ELSE LET shorter == StringsUpTo(alphabet, n - 1)
         IN  shorter \cup {Append(s, t) : s \in shorter, t \in alphabet}

-----------------------------------------------------------------------------
(* DeviceSyncError *)

Api(status, code, message, details) ==
    [kind |-> "Api", status |-> status, code |-> code, message |-> message,
     details |-> details]
Http == [kind |-> "Http"]
Json == [kind |-> "Json"]
InvalidRequest(message) == [kind |-> "InvalidRequest", message |-> message]
Auth(message) == [kind |-> "Auth", message |-> message]

\* DeviceSyncError::api
api(status, message) == Api(status, <<>>, message, "None")

\* DeviceSyncError::api_structured
api_structured(status, code, message, details) ==
    Api(status, code, message, details)

\* Option<&str>: <<>> is None, <<c>> is Some(c).
error_code(e) ==
    IF e.kind = "Api" /\ ~IsEmpty(e.code) THEN <<e.code>> ELSE <<>>

\* Variant: the code is matched by its leading token (starts_with) instead
\* of by equality.
is_integrity_error_prefix(e) ==
    /\ error_code(e) # <<>>
    /\ <<error_code(e)[1][1]>> \in
          { SYNC_SEGMENT_OBJECT_MISSING, SYNC_SEGMENT_OFFSET_INVALID,
            SYNC_SEGMENT_CHECKSUM_MISMATCH, SYNC_SEGMENT_STREAM_MISMATCH,
            SYNC_EVENT_INDEX_MISMATCH, SYNC_SNAPSHOT_OBJECT_MISSING,
            SYNC_SNAPSHOT_CHECKSUM_MISMATCH }

\* Variant: SYNC_EVENT_INDEX_MISMATCH is missing from the list.
is_integrity_error_no_event_index(e) ==
    /\ error_code(e) # <<>>
    /\ error_code(e)[1] \in
          { SYNC_SEGMENT_OBJECT_MISSING, SYNC_SEGMENT_OFFSET_INVALID,
            SYNC_SEGMENT_CHECKSUM_MISMATCH, SYNC_SEGMENT_STREAM_MISMATCH,
            SYNC_SNAPSHOT_OBJECT_MISSING, SYNC_SNAPSHOT_CHECKSUM_MISMATCH }

is_integrity_error(e) ==
    /\ error_code(e) # <<>>
    /\ error_code(e)[1] \in
          { SYNC_SEGMENT_OBJECT_MISSING, SYNC_SEGMENT_OFFSET_INVALID,
            SYNC_SEGMENT_CHECKSUM_MISMATCH, SYNC_SEGMENT_STREAM_MISMATCH,
            SYNC_EVENT_INDEX_MISMATCH, SYNC_SNAPSHOT_OBJECT_MISSING,
            SYNC_SNAPSHOT_CHECKSUM_MISMATCH }

\* Variant: the code is matched by its leading token (starts_with) instead
\* of by equality.
is_stale_cursor_prefix(e) ==
    /\ error_code(e) # <<>>
    /\ <<error_code(e)[1][1]>> = SYNC_CURSOR_TOO_OLD

is_stale_cursor(e) == error_code(e) = <<SYNC_CURSOR_TOO_OLD>>

\* Variant: the server-error range written half-open (500..599 in Rust).
retry_class_half_open(e) ==
    CASE e.kind = "Api" ->
            ( CASE e.status \in {401, 403} -> "ReauthRequired"
                [] e.status \in {408, 409, 423, 425, 429} -> "Retryable"
                [] e.status \in 500..598 -> "Retryable"
                [] OTHER -> "Permanent" )
      [] e.kind = "Http" -> "Retryable"
      [] e.kind = "Json" -> "Permanent"
      [] e.kind = "InvalidRequest" -> "Permanent"
      [] e.kind = "Auth" -> "ReauthRequired"

retry_class(e) ==
    CASE e.kind = "Api" ->
            ( CASE e.status \in {401, 403} -> "ReauthRequired"
                [] e.status \in {408, 409, 423, 425, 429} -> "Retryable"
                [] e.status \in 500..599 -> "Retryable"
                [] OTHER -> "Permanent" )
      [] e.kind = "Http" -> "Retryable"
      [] e.kind = "Json" -> "Permanent"
      [] e.kind = "InvalidRequest" -> "Permanent"
      [] e.kind = "Auth" -> "ReauthRequired"

\* Variant: the status test is left out.
is_snapshot_id_validation_error_any_status(e) ==
    IF e.kind = "Api"
    THEN /\ (Contains(e.message, "snapshotId") \/ Contains(e.code, "snapshotId"))
         /\ \/ Contains(e.message, "Invalid UUID")
            \/ Contains(e.message, "invalid_format")
            \/ Contains(e.code, "invalid_format")
    ELSE FALSE

is_snapshot_id_validation_error(e) ==
    IF e.kind = "Api"
    THEN /\ e.status = 400
         /\ (Contains(e.message, "snapshotId") \/ Contains(e.code, "snapshotId"))
         /\ \/ Contains(e.message, "Invalid UUID")
            \/ Contains(e.message, "invalid_format")
            \/ Contains(e.code, "invalid_format")
    ELSE FALSE

-----------------------------------------------------------------------------
(* SpecErr: every method of the classifier applied to every error of a     *)
(* bounded input set.                                                      *)

CodeTokens ==
    { "SYNC_CURSOR_TOO_OLD", "SYNC_SEGMENT_OBJECT_MISSING",
      "SYNC_SEGMENT_OFFSET_INVALID", "SYNC_SEGMENT_CHECKSUM_MISMATCH",
      "SYNC_SEGMENT_STREAM_MISMATCH", "SYNC_EVENT_INDEX_MISMATCH",
      "SYNC_SNAPSHOT_OBJECT_MISSING", "SYNC_SNAPSHOT_CHECKSUM_MISMATCH",
      "snapshotId", "invalid_format", "Invalid UUID", "x" }

MarkerTokens == { "snapshotId", "invalid_format", "Invalid UUID", "x" }

\* Every status with a few codes and messages.
ErrorsByStatus ==
    { Api(st, c, m, "None") :
        st \in 0..MaxStatus,
        c \in {<<>>, SYNC_CURSOR_TOO_OLD, SYNC_SEGMENT_CHECKSUM_MISMATCH},
        m \in {<<>>, <<"x">>} }

\* Every code with a few statuses, one of each retry class.
ErrorsByCode ==
    { Api(st, c, <<"x">>, d) :
        st \in {400, 401, 409, 500},
        c \in StringsUpTo(CodeTokens, MaxLen),
        d \in {"None", "Some"} }

\* Every placement of the snapshotId markers in code and message.
ErrorsByMarker ==
    { Api(st, c, m, "None") :
        st \in {400, 401},
        c \in StringsUpTo(MarkerTokens, MaxLen),
        m \in StringsUpTo(MarkerTokens, MaxLen) }

ErrorsOtherKinds ==
    {Http, Json}
    \cup {InvalidRequest(m) : m \in StringsUpTo(MarkerTokens, MaxLen)}
    \cup {Auth(m) : m \in StringsUpTo(MarkerTokens, MaxLen)}

Methods == {"retry_class", "is_integrity_error", "is_stale_cursor",
            "is_snapshot_id_validation_error"}

NoResult == [m \in Methods |-> "unset"]

\* Holders of the pass-exclusion lock.
NoHolder == <<>>
SchedulerTask == <<"scheduler">>
Trigger(c) == <<"interactive", c>>

SchedIdle ==
    /\ now = 0 /\ spc = "off" /\ deadline = 0 /\ secret = "None"
    /\ has_token = FALSE /\ passLock = NoHolder /\ ipc = <<>>
    /\ tickLog = {} /\ secretAtCheck = "unread" /\ invoked = FALSE
    /\ netCalls = 0 /\ attempts = 0 /\ firedAt = 0 /\ ignoredReq = FALSE

NoCursor == [seg |-> -1, ev |-> -1]
NoError == [kind |-> "NoError"]
Nothing == [what |-> "nothing"]

SyncIdle ==
    /\ cursor = NoCursor /\ lastErr = NoError /\ phase = "off" /\ mode = "none"
    /\ reqSeg = -1 /\ fetched = Nothing /\ serverSegs = 0
    /\ startCursor = NoCursor /\ committed = NoCursor /\ failedSeg = -1
    /\ firstFetch = FALSE

ErrInit ==
    /\ \/ err \in ErrorsByStatus
       \/ err \in ErrorsByCode
       \/ err \in ErrorsByMarker
       \/ err \in ErrorsOtherKinds
    /\ op = {}
    /\ result = NoResult
    /\ SchedIdle
    /\ SyncIdle

Apply(m, value) ==
    /\ m \notin op
    /\ op' = op \cup {m}
    /\ result' = [result EXCEPT ![m] = value]
    /\ UNCHANGED <<err, schedVars, syncVars>>

RetryClass == Apply("retry_class", retry_class(err))

IsIntegrityError == Apply("is_integrity_error", is_integrity_error(err))

IsStaleCursor == Apply("is_stale_cursor", is_stale_cursor(err))

IsSnapshotIdValidationError ==
    Apply("is_snapshot_id_validation_error", is_snapshot_id_validation_error(err))

ErrNext ==
    \/ RetryClass
    \/ IsIntegrityError
    \/ IsStaleCursor
    \/ IsSnapshotIdValidationError

SpecErr == ErrInit /\ [][ErrNext]_vars

-----------------------------------------------------------------------------
(* Properties of the classifier *)

IntegrityCodes ==
    { <<"SYNC_SEGMENT_OBJECT_MISSING">>, <<"SYNC_SEGMENT_OFFSET_INVALID">>,
      <<"SYNC_SEGMENT_CHECKSUM_MISMATCH">>, <<"SYNC_SEGMENT_STREAM_MISMATCH">>,
      <<"SYNC_EVENT_INDEX_MISMATCH">>, <<"SYNC_SNAPSHOT_OBJECT_MISSING">>,
      <<"SYNC_SNAPSHOT_CHECKSUM_MISMATCH">> }

\* The mapping of claim C1, by kind and status alone.
ExpectedRetryClass(kind, status) ==
    IF kind = "Api"
    THEN IF status = 401 \/ status = 403 THEN "ReauthRequired"
         ELSE IF status \in {408, 409, 423, 425, 429} \/ (status >= 500 /\ status <= 599)
              THEN "Retryable"
              ELSE "Permanent"
    ELSE IF kind = "Http" THEN "Retryable"
    ELSE IF kind = "Auth" THEN "ReauthRequired"
    ELSE "Permanent"

\* C1: retry_class() is the total mapping Api 401/403 -> ReauthRequired;
\* Api 408/409/423/425/429/500..599 -> Retryable; any other Api status ->
\* Permanent; Http -> Retryable; Json -> Permanent; InvalidRequest ->
\* Permanent; Auth -> ReauthRequired; it is a function of the kind and the
\* status only, whatever the code, message and details.
C1_RetryClassMapping ==
    "retry_class" \in op =>
        result["retry_class"] =
            ExpectedRetryClass(err.kind, IF err.kind = "Api" THEN err.status ELSE 0)

\* C1 witness: a 429 carrying an integrity code and a message was classified
\* Retryable.
C1_Witness ==
    /\ "retry_class" \in op
    /\ err.kind = "Api" /\ err.status = 429
    /\ err.code = <<"SYNC_SEGMENT_CHECKSUM_MISMATCH">> /\ err.message # <<>>
    /\ result["retry_class"] = "Retryable"

\* C2: is_integrity_error() is true exactly for an Api error whose code is one
\* of the seven integrity codes; false for SYNC_CURSOR_TOO_OLD, the empty
\* code, any other code and every other kind, whatever the status.
C2_IntegrityIffSevenCodes ==
    "is_integrity_error" \in op =>
        ( result["is_integrity_error"] = TRUE
            <=> (err.kind = "Api" /\ err.code \in IntegrityCodes) )

\* C2 witness: both outcomes happen; here a code that merely starts with an
\* integrity code was rejected.
C2_Witness ==
    /\ "is_integrity_error" \in op
    /\ err.kind = "Api"
    /\ err.code = <<"SYNC_EVENT_INDEX_MISMATCH", "x">>
    /\ result["is_integrity_error"] = FALSE

\* C3: is_stale_cursor() is true exactly for an Api error whose code equals
\* SYNC_CURSOR_TOO_OLD, and no error has is_stale_cursor() and
\* is_integrity_error() both true.
C3_StaleIffCursorTooOld ==
    /\ "is_stale_cursor" \in op =>
          ( result["is_stale_cursor"] = TRUE
              <=> (err.kind = "Api" /\ err.code = <<"SYNC_CURSOR_TOO_OLD">>) )
    /\ {"is_stale_cursor", "is_integrity_error"} \subseteq op =>
          ~(result["is_stale_cursor"] = TRUE /\ result["is_integrity_error"] = TRUE)

\* C3 witness: both predicates were applied to a cursor-too-old error.
C3_Witness ==
    /\ {"is_stale_cursor", "is_integrity_error"} \subseteq op
    /\ err.kind = "Api" /\ err.code = <<"SYNC_CURSOR_TOO_OLD">>
    /\ result["is_stale_cursor"] = TRUE
    /\ result["is_integrity_error"] = FALSE

ReferencesSnapshotId(e) ==
    \/ \E i \in 1..Len(e.message) : e.message[i] = "snapshotId"
    \/ \E i \in 1..Len(e.code) : e.code[i] = "snapshotId"

\* The markers of an invalid-UUID / invalid-format condition: "Invalid UUID"
\* or "invalid_format" in the message, "invalid_format" in the code.
IndicatesInvalidFormat(e) ==
    \/ \E i \in 1..Len(e.message) : e.message[i] \in {"Invalid UUID", "invalid_format"}
    \/ \E i \in 1..Len(e.code) : e.code[i] = "invalid_format"

-----------------------------------------------------------------------------
(* SpecSched: the scheduler task of start_broker_sync_scheduler, the secret *)
(* store, the clock, and interactive triggers asking for a pass.            *)

SYNC_INTERVAL_SECS == 4 * 60 * 60

INITIAL_DELAY_SECS == 60

\* The clock moves in half intervals once the initial delay has passed.
ElapseStep == SYNC_INTERVAL_SECS \div 2

MaxTime == INITIAL_DELAY_SECS + MaxIntervals * SYNC_INTERVAL_SECS

Interactive == 1..NumInteractive

\* tokio::time::interval(period) keeps the default MissedTickBehavior::Burst:
\* the next deadline is the previous deadline plus the period, whether or
\* not that is already in the past.
IntervalNextDeadline(timeout, at, period) == timeout + period

\* Variant: a store error counts as a token being present (unwrap_or(true)).
HasTokenErrIsPresent(answer) == answer # "None"

\* state.secret_store.get_secret("sync_refresh_token")
\*     .map(|t| t.is_some()).unwrap_or(false)
\* answer is "Some" (Ok(Some(_))), "None" (Ok(None)) or "Err" (Err(_)).
HasToken(answer) ==
    CASE answer = "Some" -> TRUE
      [] answer = "None" -> FALSE
      [] answer = "Err"  -> FALSE

\* e.contains("No refresh token") || e.contains("not authenticated")
\*     || e.contains("Session expired")
IsAuthMessage(e) ==
    \/ Contains(e, "No refresh token")
    \/ Contains(e, "not authenticated")
    \/ Contains(e, "Session expired")

\* The severities run_scheduled_sync logs for an outcome of perform_broker_sync.
OutcomeLog(outcome) ==
    IF outcome.ok THEN {"info"}
    ELSE IF IsAuthMessage(outcome.e) THEN {"debug"} ELSE {"warn"}

Outcomes ==
    {[ok |-> TRUE, activities_synced |-> a] : a \in {"None", "Some"}}
    \cup {[ok |-> FALSE, e |-> m] :
            m \in { <<"No refresh token">>, <<"x", "not authenticated">>,
                    <<"Session expired", "x">>, <<"x">> }}

\* Variant: the pass-exclusion lock is never found taken.
TryLockAlways(lock) == TRUE

\* The pass-exclusion lock: a pass starts only when no pass holds it.
TryLock(lock) == lock = NoHolder

Running ==
    (IF spc = "sync" THEN {SchedulerTask} ELSE {})
    \cup {Trigger(c) : c \in {i \in DOMAIN ipc : ipc[i] = "sync"}}

SchedInit ==
    /\ now = 0
    /\ spc = "sleep"
    /\ deadline = 0
    /\ secret \in {"Some", "None", "Err"}
    /\ has_token = FALSE
    /\ passLock = NoHolder
    /\ ipc = [c \in Interactive |-> "idle"]
    /\ tickLog = {}
    /\ secretAtCheck = "unread"
    /\ invoked = FALSE
    /\ netCalls = 0
    /\ attempts = 0
    /\ firedAt = 0
    /\ ignoredReq = FALSE
    /\ err = Json /\ op = {} /\ result = NoResult
    /\ SyncIdle

\* tokio::time::sleep(INITIAL_DELAY_SECS) runs its course.
SleepElapses ==
    /\ spc = "sleep"
    /\ now < INITIAL_DELAY_SECS
    /\ now' = INITIAL_DELAY_SECS
    /\ UNCHANGED <<spc, deadline, secret, has_token, passLock, ipc, tickLog,
                   secretAtCheck, invoked, netCalls, attempts, firedAt, ignoredReq>>
    /\ UNCHANGED <<errVars, syncVars>>

\* The sleep returns and the Interval is created: its first tick is due at once.
SleepDone ==
    /\ spc = "sleep"
    /\ now >= INITIAL_DELAY_SECS
    /\ spc' = "tick"
    /\ deadline' = now
    /\ UNCHANGED <<now, secret, has_token, passLock, ipc, tickLog,
                   secretAtCheck, invoked, netCalls, attempts, firedAt, ignoredReq>>
    /\ UNCHANGED <<errVars, syncVars>>

\* Time passes.  A timer that is due fires before the clock moves on; while a
\* pass is awaited the clock is free.
Elapse ==
    /\ now + ElapseStep <= MaxTime
    /\ \/ spc = "tick" /\ now + ElapseStep <= deadline
       \/ spc = "sync"
    /\ now' = now + ElapseStep
    /\ UNCHANGED <<spc, deadline, secret, has_token, passLock, ipc, tickLog,
                   secretAtCheck, invoked, netCalls, attempts, firedAt, ignoredReq>>
    /\ UNCHANGED <<errVars, syncVars>>

\* sync_interval.tick().await returns and run_scheduled_sync is entered.
TickFires ==
    /\ spc = "tick"
    /\ now >= deadline
    /\ deadline' = IntervalNextDeadline(deadline, now, SYNC_INTERVAL_SECS)
    /\ spc' = "run"
    /\ attempts' = attempts + 1
    /\ firedAt' = now
    /\ tickLog' = {"info"}
    /\ secretAtCheck' = "unread"
    /\ invoked' = FALSE
    /\ netCalls' = 0
    /\ UNCHANGED <<now, secret, has_token, passLock, ipc, ignoredReq>>
    /\ UNCHANGED <<errVars, syncVars>>

\* run_scheduled_sync finds no token and returns.
RunSkip ==
    /\ spc = "run"
    /\ ~HasToken(secret)
    /\ has_token' = HasToken(secret)
    /\ secretAtCheck' = secret
    /\ tickLog' = tickLog \cup {"debug"}
    /\ spc' = "tick"
    /\ UNCHANGED <<now, deadline, secret, passLock, ipc, invoked, netCalls,
                   attempts, firedAt, ignoredReq>>
    /\ UNCHANGED <<errVars, syncVars>>

\* run_scheduled_sync finds a token and calls perform_broker_sync, which
\* starts a pass.
RunInvoke ==
    /\ spc = "run"
    /\ HasToken(secret)
    /\ TryLock(passLock)
    /\ has_token' = HasToken(secret)
    /\ secretAtCheck' = secret
    /\ invoked' = TRUE
    /\ passLock' = SchedulerTask
    /\ spc' = "sync"
    /\ UNCHANGED <<now, deadline, secret, ipc, tickLog, netCalls,
                   attempts, firedAt, ignoredReq>>
    /\ UNCHANGED <<errVars, syncVars>>

\* run_scheduled_sync finds a token and calls perform_broker_sync while a pass
\* is in flight: the request is turned away and the call returns an error.
RunInvokeIgnored ==
    /\ spc = "run"
    /\ HasToken(secret)
    /\ ~TryLock(passLock)
    /\ has_token' = HasToken(secret)
    /\ secretAtCheck' = secret
    /\ invoked' = TRUE
    /\ ignoredReq' = TRUE
    /\ tickLog' = tickLog \cup OutcomeLog([ok |-> FALSE, e |-> <<"x">>])
    /\ spc' = "tick"
    /\ UNCHANGED <<now, deadline, secret, passLock, ipc, netCalls,
                   attempts, firedAt>>
    /\ UNCHANGED <<errVars, syncVars>>

\* The scheduled pass makes a network call.
SchedNetworkCall ==
    /\ spc = "sync"
    /\ netCalls < MaxNetCalls
    /\ netCalls' = netCalls + 1
    /\ UNCHANGED <<now, spc, deadline, secret, has_token, passLock, ipc, tickLog,
                   secretAtCheck, invoked, attempts, firedAt, ignoredReq>>
    /\ UNCHANGED <<errVars, syncVars>>

\* perform_broker_sync returns; the outcome is logged and the loop goes on.
SyncReturns ==
    /\ spc = "sync"
    /\ \E outcome \in Outcomes :
          tickLog' = tickLog \cup OutcomeLog(outcome)
    /\ passLock' = NoHolder
    /\ spc' = "tick"
    /\ UNCHANGED <<now, deadline, secret, has_token, ipc, secretAtCheck,
                   invoked, netCalls, attempts, firedAt, ignoredReq>>
    /\ UNCHANGED <<errVars, syncVars>>

\* The user signs in or out, or the store starts or stops failing.
SecretChanges ==
    /\ \E v \in {"Some", "None", "Err"} : v # secret /\ secret' = v
    /\ UNCHANGED <<now, spc, deadline, has_token, passLock, ipc, tickLog,
                   secretAtCheck, invoked, netCalls, attempts, firedAt, ignoredReq>>
    /\ UNCHANGED <<errVars, syncVars>>

\* An interactive trigger asks for a pass and gets one.
InteractiveStart(c) ==
    /\ ipc[c] = "idle"
    /\ TryLock(passLock)
    /\ passLock' = Trigger(c)
    /\ ipc' = [ipc EXCEPT ![c] = "sync"]
    /\ UNCHANGED <<now, spc, deadline, secret, has_token, tickLog,
                   secretAtCheck, invoked, netCalls, attempts, firedAt, ignoredReq>>
    /\ UNCHANGED <<errVars, syncVars>>

\* An interactive trigger asks for a pass while one is in flight: turned away.
InteractiveIgnored(c) ==
    /\ ipc[c] = "idle"
    /\ ~TryLock(passLock)
    /\ ignoredReq' = TRUE
    /\ UNCHANGED <<now, spc, deadline, secret, has_token, passLock, ipc, tickLog,
                   secretAtCheck, invoked, netCalls, attempts, firedAt>>
    /\ UNCHANGED <<errVars, syncVars>>

\* An interactive pass ends.
InteractiveDone(c) ==
    /\ ipc[c] = "sync"
    /\ passLock' = NoHolder
    /\ ipc' = [ipc EXCEPT ![c] = "idle"]
    /\ UNCHANGED <<now, spc, deadline, secret, has_token, tickLog,
                   secretAtCheck, invoked, netCalls, attempts, firedAt, ignoredReq>>
    /\ UNCHANGED <<errVars, syncVars>>

SchedNext ==
    \/ SleepElapses
    \/ SleepDone
    \/ Elapse
    \/ TickFires
    \/ RunSkip
    \/ RunInvoke
    \/ RunInvokeIgnored
    \/ SchedNetworkCall
    \/ SyncReturns
    \/ SecretChanges
    \/ \E c \in Interactive : InteractiveStart(c)
    \/ \E c \in Interactive : InteractiveIgnored(c)
    \/ \E c \in Interactive : InteractiveDone(c)

SpecSched == SchedInit /\ [][SchedNext]_vars

-----------------------------------------------------------------------------
(* Properties of the scheduler *)

C8_SkipWithoutCredential ==
    /\ secretAtCheck \in {"None", "Err"} =>
          /\ ~invoked
          /\ netCalls = 0
          /\ "warn" \notin tickLog
          /\ spc # "sync"
    /\ invoked => secretAtCheck = "Some"

\* C8 witness: a run found no credential, logged the skip at debug severity
\* and went back to waiting for the next tick.
C8_Witness ==
    /\ attempts >= 2
    /\ secretAtCheck = "None"
    /\ spc = "tick"
    /\ tickLog = {"info", "debug"}
    /\ ~invoked

\* C9: the first attempt comes no sooner than the initial delay, there is at
\* most one attempt per interval elapsed since, and once a tick has fired the
\* next one is due in the future: ticks missed during an overrunning attempt
\* are not run back to back.
C9_NoCatchUpBurst ==
    attempts >= 1 =>
        /\ firedAt >= INITIAL_DELAY_SECS
        /\ attempts <= 1 + (now - INITIAL_DELAY_SECS) \div SYNC_INTERVAL_SECS
        /\ deadline > firedAt

-----------------------------------------------------------------------------
(* SpecSync: one pass after another over the cursor store.                  *)
(* Start -> {Incremental | Bootstrap} -> Applying -> {Committed | Failed}   *)

\* The cursor position at the end of segment k.
Position(k) == [seg |-> k, ev |-> (k + 1) * EventsPerSegment - 1]

\* Failures a fetch can end with: the remote API's (one status of each retry
\* class, with the codes the pass reacts to, known and unknown), the
\* transport's, the decoder's and the credential's.
FetchErrors ==
    { Api(st, c, <<"x">>, "None") :
        st \in {400, 401, 429},
        c \in { <<>>, SYNC_CURSOR_TOO_OLD, <<"SYNC_CURSOR_TOO_OLD", "x">>,
                SYNC_EVENT_INDEX_MISMATCH, SYNC_SNAPSHOT_OBJECT_MISSING } }
    \cup {Http, Json, Auth(<<"x">>)}

\* Segments the server may answer a fetch of segment k with: the right one,
\* or one whose bytes or event range are off.
SegmentsServed(k) ==
    { [what |-> "segment", index |-> k, first |-> k * EventsPerSegment + shift,
       last |-> (k + 1) * EventsPerSegment - 1 + shift, checksumOk |-> b] :
        shift \in {-1, 0, 1}, b \in BOOLEAN }

\* Snapshots the server may answer with: as of any segment it holds.
SnapshotsServed(n) ==
    { [what |-> "snapshot", asof |-> Position(k), checksumOk |-> b] :
        k \in 0..(n - 1), b \in BOOLEAN }

\* The decision at Start.
NeedsBootstrap(c, e) ==
    \/ c = NoCursor
    \/ e # NoError /\ (is_stale_cursor(e) \/ is_integrity_error(e))

\* Variant: the event-index continuity check is left out.
VerifySegmentChecksumOnly(c, segment) ==
    IF ~segment.checksumOk
    THEN api_structured(409, SYNC_SEGMENT_CHECKSUM_MISMATCH, <<"x">>, "None")
    ELSE NoError

\* Verification of a fetched segment against the cursor: NoError, or the
\* integrity failure that ends the pass.
VerifySegment(c, segment) ==
    IF ~segment.checksumOk
    THEN api_structured(409, SYNC_SEGMENT_CHECKSUM_MISMATCH, <<"x">>, "None")
    ELSE IF segment.first # c.ev + 1
    THEN api_structured(409, SYNC_EVENT_INDEX_MISMATCH, <<"x">>, "None")
    ELSE NoError

\* The cursor after a verified, applied segment.
AdvanceCursor(c, segment) == [seg |-> segment.index, ev |-> segment.last]

\* Variant: the cursor is moved as soon as a segment is in hand, so a pass
\* that fails with one keeps the move.
CursorOnFailureKeepsSegment(c, f) ==
    IF f # Nothing /\ f.what = "segment" THEN AdvanceCursor(c, f) ELSE c

\* The cursor a failed pass leaves behind.
CursorOnFailure(c, f) == c

InPass == {"Start", "Incremental", "Bootstrap", "Applying"}

SyncInit ==
    /\ cursor = NoCursor
    /\ lastErr = NoError
    /\ phase = "Idle"
    /\ mode = "none"
    /\ reqSeg = -1
    /\ fetched = Nothing
    /\ serverSegs \in 1..MaxSegs
    /\ startCursor = NoCursor
    /\ committed = NoCursor
    /\ failedSeg = -1
    /\ firstFetch = FALSE
    /\ err = Json /\ op = {} /\ result = NoResult
    /\ SchedIdle

\* The pass ends in Failed with error e.
FailPass(e) ==
    /\ phase' = "Failed"
    /\ lastErr' = e
    /\ cursor' = CursorOnFailure(cursor, fetched)
    /\ failedSeg' = IF mode = "Incremental" THEN reqSeg ELSE -1
    /\ fetched' = Nothing
    /\ firstFetch' = FALSE
    /\ UNCHANGED <<mode, reqSeg, serverSegs, startCursor, committed>>
    /\ UNCHANGED <<errVars, schedVars>>

\* Start: load the cursor.
PassStart ==
    /\ phase \in {"Idle", "Committed", "Failed"}
    /\ phase' = "Start"
    /\ startCursor' = cursor
    /\ mode' = "none"
    /\ reqSeg' = -1
    /\ UNCHANGED <<cursor, lastErr, fetched, serverSegs, committed, failedSeg,
                   firstFetch>>
    /\ UNCHANGED <<errVars, schedVars>>

\* Decision: Bootstrap or Incremental.
Decide ==
    /\ phase = "Start"
    /\ IF NeedsBootstrap(startCursor, lastErr)
       THEN phase' = "Bootstrap" /\ mode' = "Bootstrap" /\ reqSeg' = -1
       ELSE phase' = "Incremental" /\ mode' = "Incremental"
            /\ reqSeg' = cursor.seg + 1
    /\ firstFetch' = TRUE
    /\ UNCHANGED <<cursor, lastErr, fetched, serverSegs, startCursor, committed,
                   failedSeg>>
    /\ UNCHANGED <<errVars, schedVars>>

\* Bootstrap: fetch_snapshot answers with a snapshot.
FetchSnapshot ==
    /\ phase = "Bootstrap"
    /\ fetched = Nothing
    /\ fetched' \in SnapshotsServed(serverSegs)
    /\ firstFetch' = FALSE
    /\ UNCHANGED <<cursor, lastErr, phase, mode, reqSeg, serverSegs, startCursor,
                   committed, failedSeg>>
    /\ UNCHANGED <<errVars, schedVars>>

\* Bootstrap: fetch_snapshot fails.
FetchSnapshotFails ==
    /\ phase = "Bootstrap"
    /\ fetched = Nothing
    /\ \E e \in FetchErrors : FailPass(e)

\* Bootstrap: the snapshot's checksum is verified; a good snapshot replaces
\* the cursor wholesale, a corrupt one fails the pass as Retryable.
VerifySnapshot ==
    /\ phase = "Bootstrap"
    /\ fetched # Nothing
    /\ IF fetched.checksumOk
       THEN /\ cursor' = fetched.asof
            /\ committed' = fetched.asof
            /\ phase' = "Applying"
            /\ UNCHANGED <<lastErr, mode, reqSeg, fetched, serverSegs,
                           startCursor, failedSeg, firstFetch>>
            /\ UNCHANGED <<errVars, schedVars>>
       ELSE FailPass(api_structured(409, SYNC_SNAPSHOT_CHECKSUM_MISMATCH,
                                    <<"x">>, "None"))

\* Bootstrap: the materialized snapshot is reported; the pass is Committed.
CommitBootstrap ==
    /\ phase = "Applying"
    /\ mode = "Bootstrap"
    /\ phase' = "Committed"
    /\ lastErr' = NoError
    /\ fetched' = Nothing
    /\ failedSeg' = -1
    /\ UNCHANGED <<cursor, mode, reqSeg, serverSegs, startCursor, committed,
                   firstFetch>>
    /\ UNCHANGED <<errVars, schedVars>>

\* Incremental: fetch_segment answers with the segment after the cursor.
FetchSegment ==
    /\ phase = "Incremental"
    /\ fetched = Nothing
    /\ reqSeg < serverSegs
    /\ fetched' \in SegmentsServed(reqSeg)
    /\ firstFetch' = FALSE
    /\ UNCHANGED <<cursor, lastErr, phase, mode, reqSeg, serverSegs, startCursor,
                   committed, failedSeg>>
    /\ UNCHANGED <<errVars, schedVars>>

\* Incremental: fetch_segment fails.
FetchSegmentFails ==
    /\ phase = "Incremental"
    /\ fetched = Nothing
    /\ \E e \in FetchErrors : FailPass(e)

\* Incremental: the server reports no further segments; the pass is Committed.
NoMoreSegments ==
    /\ phase = "Incremental"
    /\ fetched = Nothing
    /\ reqSeg >= serverSegs
    /\ phase' = "Committed"
    /\ lastErr' = NoError
    /\ failedSeg' = -1
    /\ firstFetch' = FALSE
    /\ UNCHANGED <<cursor, mode, reqSeg, fetched, serverSegs, startCursor,
                   committed>>
    /\ UNCHANGED <<errVars, schedVars>>

\* Incremental: checksum and event-index continuity of the segment in hand.
CheckSegment ==
    /\ phase = "Incremental"
    /\ fetched # Nothing
    /\ IF VerifySegment(cursor, fetched) = NoError
       THEN /\ phase' = "Applying"
            /\ UNCHANGED <<cursor, lastErr, mode, reqSeg, fetched, serverSegs,
                           startCursor, committed, failedSeg, firstFetch>>
            /\ UNCHANGED <<errVars, schedVars>>
       ELSE FailPass(VerifySegment(cursor, fetched))

\* Applying: an event of the segment does not decode.
ApplyFails ==
    /\ phase = "Applying"
    /\ mode = "Incremental"
    /\ FailPass(Json)

\* Applying: the segment is applied and the advanced cursor persisted, as one
\* step; the pass goes on to the next segment.
CommitSegment ==
    /\ phase = "Applying"
    /\ mode = "Incremental"
    /\ cursor' = AdvanceCursor(cursor, fetched)
    /\ committed' = AdvanceCursor(cursor, fetched)
    /\ reqSeg' = reqSeg + 1
    /\ fetched' = Nothing
    /\ phase' = "Incremental"
    /\ UNCHANGED <<lastErr, mode, serverSegs, startCursor, failedSeg, firstFetch>>
    /\ UNCHANGED <<errVars, schedVars>>

\* The host shuts down or crashes mid-pass: the pass is abandoned without an
\* outcome and without a cursor write.
Abandon ==
    /\ phase \in InPass
    /\ phase' = "Idle"
    /\ lastErr' = NoError
    /\ fetched' = Nothing
    /\ failedSeg' = -1
    /\ firstFetch' = FALSE
    /\ UNCHANGED <<cursor, mode, reqSeg, serverSegs, startCursor, committed>>
    /\ UNCHANGED <<errVars, schedVars>>

\* The server stores one more segment.
ServerAppends ==
    /\ serverSegs < MaxSegs
    /\ serverSegs' = serverSegs + 1
    /\ UNCHANGED <<cursor, lastErr, phase, mode, reqSeg, fetched, startCursor,
                   committed, failedSeg, firstFetch>>
    /\ UNCHANGED <<errVars, schedVars>>

SyncNext ==
    \/ PassStart
    \/ Decide
    \/ FetchSnapshot
    \/ FetchSnapshotFails
    \/ VerifySnapshot
    \/ CommitBootstrap
    \/ FetchSegment
    \/ FetchSegmentFails
    \/ NoMoreSegments
    \/ CheckSegment
    \/ ApplyFails
    \/ CommitSegment
    \/ Abandon
    \/ ServerAppends

SpecSync == SyncInit /\ [][SyncNext]_vars

-----------------------------------------------------------------------------
(* Properties of the pass *)

\* The step in which a Bootstrap adopts a verified snapshot's position.
BootstrapReplaces ==
    /\ phase = "Bootstrap"
    /\ fetched.what = "snapshot"
    /\ fetched.checksumOk
    /\ cursor' = fetched.asof

\* The step in which the cursor moves over one verified, applied segment.
AdvancesOneSegment ==
    /\ phase = "Applying"
    /\ cursor # NoCursor
    /\ fetched.what = "segment"
    /\ fetched.checksumOk
    /\ fetched.index = cursor.seg + 1
    /\ fetched.first = cursor.ev + 1
    /\ cursor'.seg = cursor.seg + 1
    /\ cursor'.ev = fetched.last
    /\ cursor'.ev >= cursor.ev

\* C4: in every step of every sequence of passes the cursor either stays as
\* it is, or is replaced by a Bootstrap with the as-of position of a snapshot
\* whose checksum verified, or advances by exactly one segment whose checksum
\* and event-index continuity verified; so its indices never decrease outside
\* a Bootstrap replacement.
C4_CursorMonotonic ==
    [][cursor' # cursor => (BootstrapReplaces \/ AdvancesOneSegment)]_vars

\* C4 witness: an Incremental pass that started from an existing cursor has
\* advanced it by two segments, one at a time.
C4_Witness ==
    /\ phase = "Incremental"
    /\ mode = "Incremental"
    /\ startCursor # NoCursor
    /\ cursor.seg = startCursor.seg + 2
    /\ cursor.ev = startCursor.ev + 2 * EventsPerSegment

\* C5: a pass is in Bootstrap exactly when it started with no cursor or the
\* pass before it ended with an Api error whose code is SYNC_CURSOR_TOO_OLD or
\* one of the seven integrity codes, whatever that error's status and retry
\* class; otherwise it is in Incremental.  The error of the pass before is the
\* only one consulted, so the override lasts one pass.
C5_BootstrapDecision ==
    phase \in {"Incremental", "Bootstrap", "Applying"} =>
        /\ mode \in {"Bootstrap", "Incremental"}
        /\ mode = "Bootstrap" <=>
              \/ startCursor = NoCursor
              \/ /\ lastErr.kind = "Api"
                 /\ lastErr.code \in IntegrityCodes \cup {<<"SYNC_CURSOR_TOO_OLD">>}

\* C5 witness: a pass with a cursor is in Bootstrap because the pass before
\* ended with SYNC_EVENT_INDEX_MISMATCH under status 400, a Permanent error.
C5_Witness ==
    /\ phase = "Bootstrap"
    /\ startCursor # NoCursor
    /\ lastErr.kind = "Api"
    /\ lastErr.code = <<"SYNC_EVENT_INDEX_MISMATCH">>
    /\ lastErr.status = 400

\* C6: a pass that ended in Failed left the cursor equal to the value of the
\* last commit, and an Incremental pass that directly follows a failed
\* Incremental pass first requests the segment index the failed pass was at.
C6_FailedLeavesCursor ==
    /\ phase = "Failed" => cursor = committed
    /\ (phase = "Incremental" /\ firstFetch /\ failedSeg # -1) =>
          /\ reqSeg = failedSeg
          /\ reqSeg = committed.seg + 1

\* C6 witness: after a 429 on the fetch of segment 2, the next pass is
\* Incremental and about to request segment 2 again.
C6_Witness ==
    /\ phase = "Incremental"
    /\ firstFetch
    /\ lastErr.kind = "Api" /\ lastErr.status = 429 /\ lastErr.code = <<>>
    /\ failedSeg = 2
    /\ reqSeg = 2
    /\ cursor = Position(1)

====
